---- MODULE Spec2Model ----
(***************************************************************************)
(* Model of the google-oauth crate: the scope algebra (src/scope.rs), the  *)
(* UnauthorizedClient builder and code exchange (src/client.rs), the       *)
(* AuthorizedClient and its scope-gated calendar-list view                 *)
(* (src/client/calendar.rs).                                               *)
(*                                                                         *)
(* Strings are modelled as sequences of chunks: a chunk is either the      *)
(* single space SP or a run of non-space characters written as one TLA+    *)
(* string. Splitting on ' ' and joining with ' ' act on those sequences.   *)
(* Where the code works on single characters (percent-encoding) a string   *)
(* is refined by Chars into runs of [A-Za-z0-9] and single other           *)
(* characters.                                                             *)
(***************************************************************************)
EXTENDS Integers, Sequences, FiniteSets, TLC

VARIABLES
    builder,    \* UnauthorizedClientBuilder<S>: redirect_uri, scope, secret
    built,      \* result of UnauthorizedClientBuilder::build (or "none")
    uc,         \* the UnauthorizedClient used for the code exchange
    exch,       \* the in-flight acquire_token_with / authorize_with_code call
    rfr,        \* the in-flight refresh call
    clients,    \* every AuthorizedClient value produced so far
    reqs,       \* list::Request values returned by calendar_list().list()
    sent,       \* HTTP requests handed to the transport, in order
    ret,        \* what the last completed call returned to its caller
    ncalls,     \* number of calls started so far
    arg,        \* the value a function without side effects is applied to
    out,        \* what that function returned
    called,     \* what the builder's setters were called with, so far
    chan,       \* the mpsc channel of tmp-auth: queue, senders alive, receiver alive
    shutdown_notify, \* the Notify and the shutdown future that waits on it
    wait_code,  \* the wait_code_with_notify future
    serve,      \* the axum::serve future: listener, callback handlers in flight
    main,       \* where main of tmp-auth stands
    delivered   \* the codes the callback handlers sent on the channel, in order

\* the variables of the redirect capture of src/bin/tmp-auth.rs
CaptureVars == <<chan, shutdown_notify, wait_code, serve, main, delivered>>

vars ==
    <<builder, built, uc, exch, rfr, clients, reqs, sent, ret, ncalls, arg, out,
      called, CaptureVars>>

----------------------------------------------------------------------------
(* Bounds of the model *)

\* how many add_scope calls one builder receives
MaxAdds == 2
\* how many calls (exchange, refresh, list, send, request) one run makes
MaxCalls == 3
\* how many AuthorizedClient values one run creates
MaxClients == 2
\* how many chunks a wire string has, how many entries a SpaceDelimitedScope
MaxWireLen == 3
\* how many times generate_url is called on one client
MaxUrlCalls == 2
\* how many OVERRIDE_ variables the environment holds
MaxEnvVars == 2
\* how many requests reach /oauth2/callback
MaxCallbacks == 2

----------------------------------------------------------------------------
(* Option<T> *)

None == [some |-> FALSE]
Some(v) == [some |-> TRUE, v |-> v]

----------------------------------------------------------------------------
(* src/scope.rs: the catalog *)

\* the marker types generated by scope! { ... }
Catalog ==
    <<"Calendar", "CalendarReadonly", "CalendarEvents",
      "CalendarEventsReadonly", "CalendarSettingsReadonly",
      "CalendarAddonsExecute">>

MarkerTypes == {Catalog[i] : i \in DOMAIN Catalog}

\* <Marker>::STR
STR(ty) ==
    CASE ty = "Calendar" -> "https://www.googleapis.com/auth/calendar"
      [] ty = "CalendarReadonly" -> "https://www.googleapis.com/auth/calendar.readonly"
      [] ty = "CalendarEvents" -> "https://www.googleapis.com/auth/calendar.events"
      [] ty = "CalendarEventsReadonly" -> "https://www.googleapis.com/auth/calendar.events.readonly"
      [] ty = "CalendarSettingsReadonly" -> "https://www.googleapis.com/auth/calendar.settings.readonly"
      [] ty = "CalendarAddonsExecute" -> "https://www.googleapis.com/auth/calendar.addons.execute"

\* ALL_SCOPE_PAIRS: (STR, DynSingleScope(&Marker)) for every marker
ALL_SCOPE_PAIRS == [i \in DOMAIN Catalog |-> <<STR(Catalog[i]), Catalog[i]>>]

\* ALL_SCOPE_MAP.get(s): Some(marker) when s is a catalog string
ALL_SCOPE_MAP_get(s) ==
    IF \E i \in DOMAIN ALL_SCOPE_PAIRS : ALL_SCOPE_PAIRS[i][1] = s
    THEN Some(ALL_SCOPE_PAIRS[CHOOSE i \in DOMAIN ALL_SCOPE_PAIRS :
                                  ALL_SCOPE_PAIRS[i][1] = s][2])
    ELSE None

----------------------------------------------------------------------------
(* src/scope.rs: scope values.                                             *)
(* A DynSingleScope is written as the name of the marker type it points    *)
(* to. A Scope value is a record tagged by its Rust type.                  *)

Marker(ty) == [k |-> "Marker", ty |-> ty]
DynSingleScope(ty) == [k |-> "Dyn", ty |-> ty]
NoScope == [k |-> "NoScope"]
SpaceDelimitedScope(v) == [k |-> "SDS", v |-> v]
With(a, b) == [k |-> "With", a |-> a, b |-> b]
\* box_scope!(e)
BoxScope(e) == [k |-> "Box", inner |-> e]

\* SingleScope::equals for a marker: other.as_any().downcast_ref::<Self>()
equals(x, y) == x = y

\* SingleScope::as_dyn / as_str of a single scope (Marker or DynSingleScope)
as_dyn(s) == s.ty
as_str(s) == STR(s.ty)

\* HashSet::contains, by DynSingleScope's Eq
HashSetContains(set, e) == \E x \in set : equals(x, e)

\* HashSet::insert: an element equal to a present one is not added
HashSetInsert(set, e) == IF HashSetContains(set, e) THEN set ELSE set \cup {e}

\* HashSet::extend(iter): insert the drained elements one by one
RECURSIVE HashSetExtend(_, _)
HashSetExtend(set, more) ==
    IF more = {} THEN set
    ELSE LET e == CHOOSE x \in more : TRUE
         IN  HashSetExtend(HashSetInsert(set, e), more \ {e})

\* iter.collect::<HashSet<_>>() over a Vec
RECURSIVE HashSetCollect(_)
HashSetCollect(v) ==
    IF v = <<>> THEN {}
    ELSE HashSetInsert(HashSetCollect(SubSeq(v, 1, Len(v) - 1)), v[Len(v)])

\* With::scope loses the right operand (mutant of WithScope)
WithScopeLeftOnly(sa, sb) == sa

\* With::scope: scope_a.extend(scope_b.drain())
WithScope(sa, sb) == HashSetExtend(sa, sb)

\* Scope::scope
RECURSIVE Scope(_)
Scope(s) ==
    CASE s.k = "Marker" -> {as_dyn(s)}
      [] s.k = "Dyn" -> {s.ty}
      [] s.k = "NoScope" -> {}
      [] s.k = "SDS" -> HashSetCollect(s.v)
      [] s.k = "Box" -> Scope(s.inner)
      [] s.k = "With" -> WithScope(Scope(s.a), Scope(s.b))

\* Scope::scope_str
RECURSIVE ScopeStr(_)
ScopeStr(s) ==
    CASE s.k = "Marker" -> {STR(s.ty)}
      [] s.k = "Dyn" -> {as_str(s)}
      [] s.k = "NoScope" -> {}
      [] s.k = "SDS" -> {STR(s.v[i]) : i \in DOMAIN s.v}
      [] s.k = "Box" -> ScopeStr(s.inner)
      [] s.k = "With" -> ScopeStr(s.a) \cup ScopeStr(s.b)

\* a marker grants every scope it is asked about (mutant)
MarkerGrantsAny(ty, other) == TRUE

\* Scope::grants of a catalog marker: Self::STR == other.as_str()
MarkerGrants(ty, other) == STR(ty) = as_str(other)

\* Scope::grants (default body, and the overrides of the markers and NoScope)
Grants(s, other) ==
    CASE s.k = "Marker" -> MarkerGrants(s.ty, other)
      [] s.k = "NoScope" -> FALSE
      [] OTHER -> HashSetContains(Scope(s), as_dyn(other))

\* With::space_delimited keeps the left operand only (mutant)
WithSpaceDelimitedLeftOnly(va, vb) == va

\* With::space_delimited: scope_a.append(&mut scope_b)
WithSpaceDelimited(va, vb) == va \o vb

\* Scope::space_delimited, the Vec inside the SpaceDelimitedScope it returns
RECURSIVE SpaceDelimitedVec(_)
SpaceDelimitedVec(s) ==
    CASE s.k = "Marker" -> <<as_dyn(s)>>
      [] s.k = "Dyn" -> <<s.ty>>
      [] s.k = "NoScope" -> <<>>
      [] s.k = "SDS" -> s.v
      [] s.k = "Box" -> SpaceDelimitedVec(s.inner)
      [] s.k = "With" ->
            WithSpaceDelimited(SpaceDelimitedVec(s.a), SpaceDelimitedVec(s.b))

space_delimited(s) == SpaceDelimitedScope(SpaceDelimitedVec(s))

\* Scope::into_boxed (BoxScope returns itself)
into_boxed(s) == IF s.k = "Box" THEN s ELSE BoxScope(s)

\* Scope::boxed_clone: box_scope!(*self) or box_scope!(self.clone()); a
\* BoxScope clones what it holds
RECURSIVE boxed_clone(_)
boxed_clone(s) == IF s.k = "Box" THEN boxed_clone(s.inner) ELSE BoxScope(s)

\* number of with() applications inside a scope value
RECURSIVE WithCount(_)
WithCount(s) ==
    CASE s.k = "With" -> 1 + WithCount(s.a) + WithCount(s.b)
      [] s.k = "Box" -> WithCount(s.inner)
      [] OTHER -> 0

----------------------------------------------------------------------------
(* src/secret.rs: WebClientSecret values used by the model *)

SecretA ==
    [client_id |-> "id-a", project_id |-> "proj-a",
     auth_uri |-> "https://accounts.example/auth",
     token_uri |-> "https://oauth2.example/token",
     auth_provider_x509_cert_url |-> "https://certs.example/a",
     client_secret |-> "secret-a"]

SecretB ==
    [client_id |-> "id-b", project_id |-> "proj-b",
     auth_uri |-> "https://accounts.example/auth",
     token_uri |-> "https://oauth2.example/token-b",
     auth_provider_x509_cert_url |-> "https://certs.example/b",
     client_secret |-> "secret-b"]

Secrets == {SecretA, SecretB}

RedirectUris == {"http://localhost:8080/oauth2/callback", "http://localhost:9090/cb"}

\* scope values handed to the builder: markers, NoScope, as_dyn(), a
\* SpaceDelimitedScope, combine_scope![calendar, calendar.readonly], a BoxScope
ArgScopes ==
    {Marker(Catalog[1]), Marker(Catalog[2]), Marker(Catalog[3]),
     NoScope,
     DynSingleScope(Catalog[2]),
     SpaceDelimitedScope(<<Catalog[3], Catalog[1]>>),
     With(Marker(Catalog[1]), Marker(Catalog[2])),
     into_boxed(Marker(Catalog[6]))}

----------------------------------------------------------------------------
(* src/client.rs: UnauthorizedClientBuilder *)

\* UnauthorizedClientBuilder::new
BuilderNew == [redirect_uri |-> None, scope |-> NoScope, secret |-> None]

\* no setter called yet. The record keeps the uri of the last redirect_uri
\* call, the secret of the last secret call, and the arguments of the last
\* scope call and of the add_scope calls after it, in call order
NothingCalled == [redirect_uri |-> None, secret |-> None, scope |-> <<>>]

\* ClientConfig, UnauthorizedClient::new
ClientConfig(redirect_uri, scope) == [redirect_uri |-> redirect_uri, scope |-> scope]
UnauthorizedClientNew(secret, config) == [secret |-> secret, config |-> config]

Ok(v) == [ok |-> TRUE, v |-> v]
Err(e) == [ok |-> FALSE, e |-> e]

\* build looks for the secret before the redirect_uri (mutant)
BuildResultSecretFirst(b) ==
    IF ~b.secret.some THEN Err("secret is required")
    ELSE IF ~b.redirect_uri.some THEN Err("redirect_uri is required")
    ELSE Ok(UnauthorizedClientNew(
                b.secret.v, ClientConfig(b.redirect_uri.v, space_delimited(b.scope))))

\* UnauthorizedClientBuilder::build
BuildResult(b) ==
    IF ~b.redirect_uri.some THEN Err("redirect_uri is required")
    ELSE LET scope == space_delimited(b.scope)
         IN  IF ~b.secret.some THEN Err("secret is required")
             ELSE Ok(UnauthorizedClientNew(
                        b.secret.v, ClientConfig(b.redirect_uri.v, scope)))

NotBuilt == [status |-> "none"]
Built(r) == [status |-> "built", r |-> r]

\* the variables of the client protocol, untouched by the builder
ProtoVars == <<uc, exch, rfr, clients, reqs, sent, ret, ncalls, arg, out, CaptureVars>>

\* UnauthorizedClientBuilder::redirect_uri
BuilderRedirectUri(uri) ==
    /\ built = NotBuilt
    /\ builder' = [builder EXCEPT !.redirect_uri = Some(uri)]
    /\ called' = [called EXCEPT !.redirect_uri = Some(uri)]
    /\ UNCHANGED <<built, ProtoVars>>

\* UnauthorizedClientBuilder::add_scope
BuilderAddScope(s2) ==
    /\ built = NotBuilt
    /\ WithCount(builder.scope) + WithCount(s2) < MaxAdds
    /\ builder' = [builder EXCEPT !.scope = With(builder.scope, s2)]
    /\ called' = [called EXCEPT !.scope = Append(@, s2)]
    /\ UNCHANGED <<built, ProtoVars>>

\* scope() adds to the scope the builder holds, as add_scope does (mutant)
BuilderScopeKeeps(s) ==
    /\ built = NotBuilt
    /\ builder' = [builder EXCEPT !.scope = With(builder.scope, s)]
    /\ called' = [called EXCEPT !.scope = <<s>>]
    /\ UNCHANGED <<built, ProtoVars>>

\* UnauthorizedClientBuilder::scope
BuilderScope(s) ==
    /\ built = NotBuilt
    /\ builder' = [builder EXCEPT !.scope = s]
    /\ called' = [called EXCEPT !.scope = <<s>>]
    /\ UNCHANGED <<built, ProtoVars>>

\* UnauthorizedClientBuilder::secret
BuilderSecret(secret) ==
    /\ built = NotBuilt
    /\ builder' = [builder EXCEPT !.secret = Some(secret)]
    /\ called' = [called EXCEPT !.secret = Some(secret)]
    /\ UNCHANGED <<built, ProtoVars>>

\* UnauthorizedClientBuilder::build consumes the builder
BuilderBuild ==
    /\ built = NotBuilt
    /\ built' = Built(BuildResult(builder))
    /\ UNCHANGED <<builder, called, ProtoVars>>

----------------------------------------------------------------------------
(* src/scope.rs: the space-delimited wire form *)

SP == " "

\* Display writes the entries one after the other, no space between (mutant)
RECURSIVE SdsDisplayVecNoSpace(_)
SdsDisplayVecNoSpace(v) ==
    IF v = <<>> THEN <<>>
    ELSE SdsDisplayVecNoSpace(SubSeq(v, 1, Len(v) - 1)) \o <<STR(v[Len(v)])>>

\* Display for SpaceDelimitedScope: first, then " {s}" for each of the tail
RECURSIVE SdsDisplayVec(_)
SdsDisplayVec(v) ==
    IF v = <<>> THEN <<>>
    ELSE IF Len(v) = 1 THEN <<STR(v[1])>>
    ELSE SdsDisplayVec(SubSeq(v, 1, Len(v) - 1)) \o <<SP, STR(v[Len(v)])>>

to_string(sds) == SdsDisplayVec(sds.v)

\* split drops the empty pieces, as str::split_whitespace does (mutant)
RECURSIVE SplitWhitespace(_)
SplitWhitespace(str) ==
    IF str = <<>> THEN <<>>
    ELSE IF str[1] = SP THEN SplitWhitespace(Tail(str))
    ELSE IF \A i \in DOMAIN str : str[i] # SP THEN <<str>>
    ELSE LET i == CHOOSE j \in DOMAIN str :
                      str[j] = SP /\ \A h \in 1..(j - 1) : str[h] # SP
         IN  <<SubSeq(str, 1, i - 1)>> \o SplitWhitespace(SubSeq(str, i + 1, Len(str)))

\* str::split(' '): the pieces between the spaces, empty pieces included
RECURSIVE Split(_)
Split(str) ==
    IF \A i \in DOMAIN str : str[i] # SP THEN <<str>>
    ELSE LET i == CHOOSE j \in DOMAIN str :
                      str[j] = SP /\ \A h \in 1..(j - 1) : str[h] # SP
         IN  <<SubSeq(str, 1, i - 1)>> \o Split(SubSeq(str, i + 1, Len(str)))

\* DynSingleScope::from_str: a lookup of the whole piece in ALL_SCOPE_MAP;
\* the error is one fixed message (a string, as a sequence of chunks)
DynSingleScopeFromStr(piece) ==
    IF Len(piece) = 1 /\ ALL_SCOPE_MAP_get(piece[1]).some
    THEN Ok(ALL_SCOPE_MAP_get(piece[1]).v)
    ELSE Err(<<"no matching scope found">>)

\* the first piece DynSingleScope::from_str refuses, 0 when there is none
FirstRefused(pieces) ==
    IF \A i \in DOMAIN pieces : DynSingleScopeFromStr(pieces[i]).ok THEN 0
    ELSE CHOOSE i \in DOMAIN pieces :
            /\ ~DynSingleScopeFromStr(pieces[i]).ok
            /\ \A h \in 1..(i - 1) : DynSingleScopeFromStr(pieces[h]).ok

\* SpaceDelimitedScope::from_str: collect::<Result<Vec<_>, _>>() stops at the
\* first Err, map_err(|e| e.to_string()) keeps its message
SpaceDelimitedScopeFromStr(str) ==
    LET pieces == Split(str)
        bad == FirstRefused(pieces)
    IN  IF bad = 0
        THEN Ok(SpaceDelimitedScope(
                    [i \in DOMAIN pieces |-> DynSingleScopeFromStr(pieces[i]).v]))
        ELSE Err(DynSingleScopeFromStr(pieces[bad]).e)

\* serde_json writes a string as a JSON string literal and reads one back
QUOTE == "\""
JsonSerializeStr(str) == <<QUOTE>> \o str \o <<QUOTE>>
JsonDeserializeStr(json) ==
    IF Len(json) >= 2 /\ json[1] = QUOTE /\ json[Len(json)] = QUOTE
    THEN Ok(SubSeq(json, 2, Len(json) - 1))
    ELSE Err(<<"invalid type: expected a str of space-delimited scope">>)

\* Serialize for SpaceDelimitedScope: serialize_str(&self.to_string())
SdsSerialize(sds) == JsonSerializeStr(to_string(sds))

\* Deserialize for SpaceDelimitedScope: visit_str is v.parse().map_err(E::custom)
SdsDeserialize(json) ==
    IF ~JsonDeserializeStr(json).ok THEN JsonDeserializeStr(json)
    ELSE SpaceDelimitedScopeFromStr(JsonDeserializeStr(json).v)

----------------------------------------------------------------------------
(* percent_encoding: utf8_percent_encode(s, NON_ALPHANUMERIC) *)

\* the scope strings begin alike
ScopeStrPrefix ==
    <<"https", ":", "/", "/", "www", ".", "googleapis", ".", "com", "/", "auth", "/">>

\* a string of the model as its characters: runs of [A-Za-z0-9] and single
\* other characters
Chars(str) ==
    CASE str = SP -> <<SP>>
      [] str = "id-a" -> <<"id", "-", "a">>
      [] str = "id-b" -> <<"id", "-", "b">>
      [] str = "a b" -> <<"a", " ", "b">>
      [] str = "secret-a" -> <<"secret", "-", "a">>
      [] str = "secret-b" -> <<"secret", "-", "b">>
      [] str = "s&c=1" -> <<"s", "&", "c", "=", "1">>
      [] str = "4/code-1" -> <<"4", "/", "code", "-", "1">>
      [] str = "4/code-2" -> <<"4", "/", "code", "-", "2">>
      [] str = "authorization_code" -> <<"authorization", "_", "code">>
      [] str = "http://localhost:8080/oauth2/callback" ->
            <<"http", ":", "/", "/", "localhost", ":", "8080", "/", "oauth2", "/", "callback">>
      [] str = "http://localhost:9090/cb" ->
            <<"http", ":", "/", "/", "localhost", ":", "9090", "/", "cb">>
      [] str = "http://localhost:8080/cb" ->
            <<"http", ":", "/", "/", "localhost", ":", "8080", "/", "cb">>
      [] str = "tok1" -> <<"tok1">>
      [] str = "a/b=c&d" -> <<"a", "/", "b", "=", "c", "&", "d">>
      [] str = STR("Calendar") -> ScopeStrPrefix \o <<"calendar">>
      [] str = STR("CalendarReadonly") ->
            ScopeStrPrefix \o <<"calendar", ".", "readonly">>
      [] str = STR("CalendarEvents") ->
            ScopeStrPrefix \o <<"calendar", ".", "events">>
      [] str = STR("CalendarEventsReadonly") ->
            ScopeStrPrefix \o <<"calendar", ".", "events", ".", "readonly">>
      [] str = STR("CalendarSettingsReadonly") ->
            ScopeStrPrefix \o <<"calendar", ".", "settings", ".", "readonly">>
      [] str = STR("CalendarAddonsExecute") ->
            ScopeStrPrefix \o <<"calendar", ".", "addons", ".", "execute">>

\* the characters of a string given as a sequence of chunks
RECURSIVE CharsOf(_)
CharsOf(chunks) ==
    IF chunks = <<>> THEN <<>>
    ELSE Chars(Head(chunks)) \o CharsOf(Tail(chunks))

\* the %XX escape of the characters that are not in [A-Za-z0-9]
PercentEscape ==
    [c \in {" ", "&", "-", ".", "/", ":", "=", "_"} |->
        CASE c = " " -> "%20"
          [] c = "&" -> "%26"
          [] c = "-" -> "%2D"
          [] c = "." -> "%2E"
          [] c = "/" -> "%2F"
          [] c = ":" -> "%3A"
          [] c = "=" -> "%3D"
          [] c = "_" -> "%5F"]

\* the dot is written as it is (mutant)
PercentEncodeKeepDot(chars) ==
    [i \in DOMAIN chars |->
        IF chars[i] \in DOMAIN PercentEscape \ {"."}
        THEN PercentEscape[chars[i]] ELSE chars[i]]

\* utf8_percent_encode(s, NON_ALPHANUMERIC): every character outside
\* [A-Za-z0-9] becomes its escape, the others stay
PercentEncode(chars) ==
    [i \in DOMAIN chars |->
        IF chars[i] \in DOMAIN PercentEscape
        THEN PercentEscape[chars[i]] ELSE chars[i]]

\* [..].join("&") of strings
RECURSIVE JoinAmp(_)
JoinAmp(parts) ==
    IF parts = <<>> THEN <<>>
    ELSE IF Len(parts) = 1 THEN parts[1]
    ELSE JoinAmp(SubSeq(parts, 1, Len(parts) - 1)) \o <<"&">> \o parts[Len(parts)]

----------------------------------------------------------------------------
(* src/client.rs: Token and its decoding from the token response *)

\* Bearer::from_str compares without regard to case (mutant)
BearerFromStrAnyCase(str) ==
    IF str \in {"Bearer", "bearer", "BEARER"} THEN Ok("Bearer") ELSE Err("not Bearer")

\* Bearer::from_str
BearerFromStr(str) == IF str = "Bearer" THEN Ok("Bearer") ELSE Err("not Bearer")

\* a JSON token response: every field is present (Some) or absent (None)
JsonBody(at, exp, rt, scope, tt) ==
    [json |-> TRUE, access_token |-> at, expires_in |-> exp,
     refresh_token |-> rt, scope |-> scope, token_type |-> tt]

\* #[derive(Deserialize)] for Token: refresh_token is #[serde(default)],
\* scope goes through SpaceDelimitedScope::from_str, token_type through Bearer
TokenDecode(body) ==
    IF ~body.json THEN Err("decode")
    ELSE IF ~body.access_token.some \/ ~body.expires_in.some
            \/ ~body.scope.some \/ ~body.token_type.some THEN Err("decode")
    ELSE IF ~SpaceDelimitedScopeFromStr(body.scope.v).ok THEN Err("decode")
    ELSE IF ~BearerFromStr(body.token_type.v).ok THEN Err("decode")
    ELSE Ok([access_token |-> body.access_token.v,
             expires_in |-> body.expires_in.v,
             refresh_token |-> body.refresh_token,
             scope |-> SpaceDelimitedScopeFromStr(body.scope.v).v,
             token_type |-> BearerFromStr(body.token_type.v).v])

\* the token responses the provider returns in the model
BodyFull ==
    JsonBody(Some("at-1"), Some(3599), Some("rt-1"),
             Some(<<STR("Calendar"), SP, STR("CalendarReadonly")>>), Some("Bearer"))
BodyReadonly ==
    JsonBody(Some("at-2"), Some(3599), None,
             Some(<<STR("CalendarReadonly")>>), Some("Bearer"))
BodyNotBearer ==
    JsonBody(Some("at-3"), Some(3599), Some("rt-3"),
             Some(<<STR("Calendar")>>), Some("bearer"))
BodyUnknownScope ==
    JsonBody(Some("at-4"), Some(3599), Some("rt-4"),
             Some(<<STR("Calendar"), SP, "openid">>), Some("Bearer"))
BodyError == JsonBody(None, None, None, None, None)

Bodies == {BodyFull, BodyReadonly, BodyNotBearer, BodyUnknownScope, BodyError}

\* what the transport gives back for one request
TransportError == [transport |-> FALSE]
Response(body) == [transport |-> TRUE, body |-> body]
Outcomes == {TransportError} \cup {Response(b) : b \in Bodies}

----------------------------------------------------------------------------
(* src/client.rs: the code exchange of the UnauthorizedClient *)

\* authorization codes handed to the exchange
Codes == {"4/code-1", "4/code-2"}

Idle == [pc |-> "idle"]
\* the builder, and the argument and result of the functions studied alone:
\* untouched by the client protocol
BuilderVars == <<builder, built, called, arg, out, CaptureVars>>

\* UnauthorizedClient::generate_url
GenerateUrlString(client) ==
    LET client_id == PercentEncode(Chars(client.secret.client_id))
        redirect_uri == PercentEncode(Chars(client.config.redirect_uri))
        scope == PercentEncode(CharsOf(to_string(client.config.scope)))
    IN  <<client.secret.auth_uri, "?">>
        \o <<"client_id=">> \o client_id
        \o <<"&", "redirect_uri=">> \o redirect_uri
        \o <<"&", "scope=">> \o scope
        \o <<"&", "response_type=code", "&", "access_type=offline">>

\* TokenRequest built by acquire_token_with
TokenRequest(client, code) ==
    [client_id |-> client.secret.client_id,
     client_secret |-> client.secret.client_secret,
     code |-> code,
     grant_type |-> "authorization_code",
     redirect_uri |-> client.config.redirect_uri]

\* the values go into the body as they are (mutant)
UrlencodedRaw(request) ==
    JoinAmp(<<<<"client_id=">> \o Chars(request.client_id),
              <<"client_secret=">> \o Chars(request.client_secret),
              <<"code=">> \o Chars(request.code),
              <<"grant_type=">> \o Chars(request.grant_type),
              <<"redirect_uri=">> \o Chars(request.redirect_uri)>>)

\* TokenRequest::urlencoded: encode_queries![client_id, client_secret, code,
\* grant_type, redirect_uri] joined by "&"
Urlencoded(request) ==
    JoinAmp(<<<<"client_id=">> \o PercentEncode(Chars(request.client_id)),
              <<"client_secret=">> \o PercentEncode(Chars(request.client_secret)),
              <<"code=">> \o PercentEncode(Chars(request.code)),
              <<"grant_type=">> \o PercentEncode(Chars(request.grant_type)),
              <<"redirect_uri=">> \o PercentEncode(Chars(request.redirect_uri))>>)

\* the POST acquire_token_with hands to the transport: form is the
\* TokenRequest, body its urlencoded(); call is the id of the call that sent it
TokenPost(client, code, call) ==
    [method |-> "POST", url |-> client.secret.token_uri,
     content_type |-> "application/x-www-form-urlencoded",
     form |-> TokenRequest(client, code),
     body |-> Urlencoded(TokenRequest(client, code)), call |-> call]

\* AuthorizedClient::new
AuthorizedClientNew(secret, token) == [secret |-> secret, token |-> token]

\* autorize_with_token hands the client another secret than its own (mutant)
AutorizeWithTokenOtherSecret(client, token) ==
    AuthorizedClientNew(IF client.secret = SecretA THEN SecretB ELSE SecretA, token)

\* UnauthorizedClient::autorize_with_token
AutorizeWithToken(client, token) == AuthorizedClientNew(client.secret, token)

\* acquire_token_with up to request.send(): one POST to token_uri.
\* via tells whether the caller is authorize_with_code or the bare
\* acquire_token_with.
AcquireTokenSend(code, via) ==
    /\ exch = Idle
    /\ ncalls < MaxCalls
    /\ via = "authorize_with_code" => Len(clients) < MaxClients
    /\ ncalls' = ncalls + 1
    /\ sent' = Append(sent, TokenPost(uc, code, ncalls + 1))
    /\ exch' = [pc |-> "sent", id |-> ncalls + 1, via |-> via, code |-> code]
    /\ UNCHANGED <<BuilderVars, uc, rfr, clients, reqs, ret>>

\* what the exchange returns for the outcome of its one request:
\* send().await? and json().await? return the error, a decoded Token is
\* returned (acquire_token_with) or wrapped (authorize_with_code)
ExchangeReturn(call, outcome) ==
    IF ~outcome.transport THEN Err("transport")
    ELSE IF ~TokenDecode(outcome.body).ok THEN Err("decode")
    ELSE IF call.via = "authorize_with_code"
         THEN Ok(AutorizeWithToken(uc, TokenDecode(outcome.body).v))
         ELSE Ok(TokenDecode(outcome.body).v)

\* the exchange sends its request again after a failure (mutant)
ExchangeCompleteRetry(outcome) ==
    /\ exch.pc = "sent"
    /\ LET r == ExchangeReturn(exch, outcome)
       IN  IF r.ok
           THEN /\ ret' = [id |-> exch.id, op |-> exch.via, outcome |-> outcome, r |-> r]
                /\ clients' = IF exch.via = "authorize_with_code"
                              THEN Append(clients, r.v) ELSE clients
                /\ exch' = Idle
                /\ sent' = sent
           ELSE /\ sent' = Append(sent, TokenPost(uc, exch.code, exch.id))
                /\ exch' = Idle
                /\ ret' = [id |-> exch.id, op |-> exch.via, outcome |-> outcome, r |-> r]
                /\ clients' = clients
    /\ UNCHANGED <<BuilderVars, uc, rfr, reqs, ncalls>>

\* the rest of acquire_token_with / authorize_with_code: the response (or
\* the transport error) arrives, the body is decoded, the call returns
ExchangeComplete(outcome) ==
    /\ exch.pc = "sent"
    /\ LET r == ExchangeReturn(exch, outcome)
       IN  /\ ret' = [id |-> exch.id, op |-> exch.via, outcome |-> outcome, r |-> r]
           /\ clients' = IF r.ok /\ exch.via = "authorize_with_code"
                         THEN Append(clients, r.v) ELSE clients
    /\ exch' = Idle
    /\ UNCHANGED <<BuilderVars, uc, rfr, reqs, sent, ncalls>>

----------------------------------------------------------------------------
(* src/client.rs: AuthorizedClient *)

\* AuthorizedClient::BASE_URL, CalendarClient::BASE_PATH, calendar_list BASE_PATH
BASE_URL == "https://www.googleapis.com"
CalendarBasePath == "/calendar/v3"
CalendarListBasePath == "/users/me/calendarList"

\* decorate_request hands the request back as it came (mutant)
DecorateRequestNone(client, request) == request

\* AuthorizedClient::decorate_request: request.bearer_auth(access_token)
DecorateRequest(client, request) ==
    [request EXCEPT !.authorization = Some(<<"Bearer", SP, client.token.access_token>>)]

\* AuthorizedClient::request: a RequestBuilder for BASE_URL + uri, decorated
ClientRequestBuilder(client, method, uri) ==
    DecorateRequest(client,
        [method |-> method, url |-> <<BASE_URL>> \o uri, authorization |-> None])

\* CalendarClient::request and calendar_list::Client::request
CalendarRequestBuilder(client, method, uri) ==
    ClientRequestBuilder(client, method, <<CalendarBasePath>> \o uri)
CalendarListRequestBuilder(client, method, uri) ==
    CalendarRequestBuilder(client, method, <<CalendarListBasePath>> \o uri)

\* paths handed to AuthorizedClient::get / post by a caller
Uris == {<<"/calendar/v3/users/me/calendarList">>, <<"/oauth2/v3/userinfo">>}
Methods == {"GET", "POST", "PATCH", "PUT", "DELETE"}

\* building a request moves the access token out of the client (mutant)
ClientRequestTakesToken(i, method, uri) ==
    /\ i \in DOMAIN clients
    /\ ncalls < MaxCalls
    /\ ncalls' = ncalls + 1
    /\ ret' = [id |-> ncalls + 1, op |-> "request", client |-> i,
               method |-> method, uri |-> uri,
               r |-> ClientRequestBuilder(clients[i], method, uri)]
    /\ clients' = [clients EXCEPT ![i].token.access_token = ""]
    /\ UNCHANGED <<BuilderVars, uc, exch, rfr, reqs, sent>>

\* AuthorizedClient::request (get, post, ...) on client i: returns the
\* builder, sends nothing
ClientRequest(i, method, uri) ==
    /\ i \in DOMAIN clients
    /\ ncalls < MaxCalls
    /\ ncalls' = ncalls + 1
    /\ ret' = [id |-> ncalls + 1, op |-> "request", client |-> i,
               method |-> method, uri |-> uri,
               r |-> ClientRequestBuilder(clients[i], method, uri)]
    /\ UNCHANGED <<BuilderVars, uc, exch, rfr, clients, reqs, sent>>

----------------------------------------------------------------------------
(* src/client/calendar.rs: the calendar-list view *)

\* contain_scope!([a, b, ...] in s): scope.contains(a) && scope.contains(b) ...
ContainScope(required, s) ==
    LET scope == Scope(s)
    IN  \A n \in DOMAIN required : HashSetContains(scope, as_dyn(Marker(required[n])))

\* the scopes list() names in its contain_scope! call
ListRequiredScopes == <<"Calendar", "CalendarReadonly">>

\* list::Parameters::new (Default)
ParametersNew ==
    [max_results |-> None, min_access_role |-> None, page_token |-> None,
     show_deleted |-> FALSE, show_hidden |-> FALSE, sync_token |-> None]

\* list::Request::new: the view (a borrow of client i) and default parameters
ListRequestNew(i) == [client |-> i, parameters |-> ParametersNew]

\* calendar_list::Client::list never checks the scope (mutant)
ListResultUnchecked(i) == Ok(ListRequestNew(i))

\* calendar_list::Client::list
ListResult(i) ==
    IF ~ContainScope(ListRequiredScopes, clients[i].token.scope)
    THEN Err("InsufficientScopeError")
    ELSE Ok(ListRequestNew(i))

\* calendar().calendar_list().list() on client i
CalendarListList(i) ==
    /\ i \in DOMAIN clients
    /\ ncalls < MaxCalls
    /\ ncalls' = ncalls + 1
    /\ LET r == ListResult(i)
       IN  /\ ret' = [id |-> ncalls + 1, op |-> "list", client |-> i, r |-> r]
           /\ reqs' = IF r.ok THEN reqs \cup {r.v} ELSE reqs
    /\ UNCHANGED <<BuilderVars, uc, exch, rfr, clients, sent>>

\* bool and Option rendering used by into_query
BoolStr(b) == IF b THEN "true" ELSE "false"

\* list::Parameters::into_query: the Some entries joined by "&"
\* max_results is written in decimal, min_access_role by its as_str(),
\* page_token and sync_token percent-encoded; show_deleted and show_hidden
\* are plain bools and always written
IntoQuery(p) ==
    LET params ==
            <<IF p.max_results.some
                THEN Some(<<"maxResults=", ToString(p.max_results.v)>>) ELSE None,
              IF p.min_access_role.some
                THEN Some(<<"minAccessRole=", p.min_access_role.v>>) ELSE None,
              IF p.page_token.some
                THEN Some(<<"pageToken=">> \o PercentEncode(Chars(p.page_token.v)))
                ELSE None,
              Some(<<"showDeleted=", BoolStr(p.show_deleted)>>),
              Some(<<"showHidden=", BoolStr(p.show_hidden)>>),
              IF p.sync_token.some
                THEN Some(<<"syncToken=">> \o PercentEncode(Chars(p.sync_token.v)))
                ELSE None>>
        flat == SelectSeq(params, LAMBDA o : o.some)
    IN  JoinAmp([n \in DOMAIN flat |-> flat[n].v])

\* list::Request::send: the uri is empty for an empty query, else "?" + query
ListSendUri(p) ==
    IF IntoQuery(p) = <<>> THEN <<>> ELSE <<"?">> \o IntoQuery(p)

\* the GET list::Request::send hands to the transport
ListGet(r, call) ==
    LET uri == ListSendUri(r.parameters)
    IN  [method |-> "GET",
         url |-> CalendarListRequestBuilder(clients[r.client], "GET", uri).url,
         authorization |->
             CalendarListRequestBuilder(clients[r.client], "GET", uri).authorization,
         from |-> r, call |-> call]

\* list::Request::send: one GET; transported tells whether a response came
ListRequestSend(r, transported) ==
    /\ r \in reqs
    /\ ncalls < MaxCalls
    /\ ncalls' = ncalls + 1
    /\ sent' = Append(sent, ListGet(r, ncalls + 1))
    /\ ret' = [id |-> ncalls + 1, op |-> "send", client |-> r.client,
               r |-> IF transported THEN Ok("json") ELSE Err("transport")]
    /\ UNCHANGED <<BuilderVars, uc, exch, rfr, clients, reqs>>

----------------------------------------------------------------------------
(* AuthorizedClient::refresh, after spec.md 3 (refresh merge rule) and 4.4 *)

\* the refresh-token grant request
RefreshRequest(client) ==
    [client_id |-> client.secret.client_id,
     client_secret |-> client.secret.client_secret,
     refresh_token |-> client.token.refresh_token.v,
     grant_type |-> "refresh_token"]

RefreshPost(client, call) ==
    [method |-> "POST", url |-> client.secret.token_uri,
     content_type |-> "application/x-www-form-urlencoded",
     form |-> RefreshRequest(client), call |-> call]

\* the merge takes every field of the response, refresh_token included (mutant)
RefreshMergeResponseOnly(prev, resp) == resp

\* refresh merge rule: the response's fields, and the previous refresh_token
\* when the response has none
RefreshMerge(prev, resp) ==
    [resp EXCEPT !.refresh_token =
        IF resp.refresh_token.some THEN resp.refresh_token ELSE prev.refresh_token]

\* refresh posts to token_uri before it looks at the refresh token (mutant)
RefreshStartEager(i) ==
    /\ i \in DOMAIN clients
    /\ rfr = Idle
    /\ ncalls < MaxCalls
    /\ ncalls' = ncalls + 1
    /\ sent' = Append(sent,
                  [method |-> "POST", url |-> clients[i].secret.token_uri,
                   content_type |-> "application/x-www-form-urlencoded",
                   form |-> [grant_type |-> "refresh_token"], call |-> ncalls + 1])
    /\ IF ~clients[i].token.refresh_token.some
       THEN /\ ret' = [id |-> ncalls + 1, op |-> "refresh", client |-> i,
                       r |-> Err("NoRefreshTokenError")]
            /\ rfr' = rfr
       ELSE /\ rfr' = [pc |-> "sent", id |-> ncalls + 1, client |-> i]
            /\ ret' = ret
    /\ UNCHANGED <<BuilderVars, uc, exch, clients, reqs>>

\* refresh() on client i up to its request: NoRefreshTokenError at once when
\* the token has no refresh token, else one POST to token_uri
RefreshStart(i) ==
    /\ i \in DOMAIN clients
    /\ rfr = Idle
    /\ ncalls < MaxCalls
    /\ ncalls' = ncalls + 1
    /\ IF ~clients[i].token.refresh_token.some
       THEN /\ ret' = [id |-> ncalls + 1, op |-> "refresh", client |-> i,
                       r |-> Err("NoRefreshTokenError")]
            /\ UNCHANGED <<rfr, sent>>
       ELSE /\ Len(clients) < MaxClients
            /\ sent' = Append(sent, RefreshPost(clients[i], ncalls + 1))
            /\ rfr' = [pc |-> "sent", id |-> ncalls + 1, client |-> i]
            /\ ret' = ret
    /\ UNCHANGED <<BuilderVars, uc, exch, clients, reqs>>

\* what refresh returns for the outcome of its request
RefreshReturn(client, outcome) ==
    IF ~outcome.transport THEN Err("transport")
    ELSE IF ~TokenDecode(outcome.body).ok THEN Err("decode")
    ELSE Ok(AuthorizedClientNew(client.secret,
                RefreshMerge(client.token, TokenDecode(outcome.body).v)))

\* the rest of refresh(): a new client value on success, the error otherwise
RefreshComplete(outcome) ==
    /\ rfr.pc = "sent"
    /\ LET r == RefreshReturn(clients[rfr.client], outcome)
       IN  /\ ret' = [id |-> rfr.id, op |-> "refresh", client |-> rfr.client,
                      outcome |-> outcome, r |-> r]
           /\ clients' = IF r.ok THEN Append(clients, r.v) ELSE clients
    /\ rfr' = Idle
    /\ UNCHANGED <<BuilderVars, uc, exch, reqs, sent, ncalls>>

----------------------------------------------------------------------------
(* The client protocol: one UnauthorizedClient, the clients it authorizes *)

\* the UnauthorizedClients a run starts from, as the binaries build them
InitialClients ==
    {BuildResult([redirect_uri |-> Some("http://localhost:8080/oauth2/callback"),
                  scope |-> With(Marker("Calendar"), Marker("CalendarReadonly")),
                  secret |-> Some(SecretA)]).v,
     BuildResult([redirect_uri |-> Some("http://localhost:9090/cb"),
                  scope |-> With(NoScope, Marker("Calendar")),
                  secret |-> Some(SecretB)]).v}

NoReturn == [id |-> 0, op |-> "none"]

\* main of tmp-auth up to try_join!: the channel is open and empty, the
\* listener bound, the Notify without permit, both futures not yet polled
CaptureInit ==
    /\ chan = [queue |-> <<>>, tx |-> TRUE, rx |-> TRUE]
    /\ shutdown_notify = [permit |-> FALSE, notified |-> "unpolled"]
    /\ wait_code = [pc |-> "recv"]
    /\ serve = [pc |-> "accepting", listener |-> TRUE, handlers |-> <<>>,
                accepted |-> 0, replies |-> <<>>]
    /\ main = [pc |-> "join"]
    /\ delivered = <<>>
NoArg == [kind |-> "none"]
NoOut == [op |-> "none"]

Init ==
    /\ builder = BuilderNew
    /\ called = NothingCalled
    /\ built = NotBuilt
    /\ uc \in InitialClients
    /\ exch = Idle
    /\ rfr = Idle
    /\ clients = <<>>
    /\ reqs = {}
    /\ sent = <<>>
    /\ ret = NoReturn
    /\ ncalls = 0
    /\ arg = NoArg
    /\ out = NoOut
    /\ CaptureInit

Next ==
    \/ \E code \in Codes, via \in {"acquire_token_with", "authorize_with_code"} :
          AcquireTokenSend(code, via)
    \/ \E outcome \in Outcomes : ExchangeComplete(outcome)
    \/ \E i \in 1..MaxClients, method \in Methods, uri \in Uris :
          ClientRequest(i, method, uri)
    \/ \E i \in 1..MaxClients : CalendarListList(i)
    \/ \E r \in reqs, transported \in BOOLEAN : ListRequestSend(r, transported)
    \/ \E i \in 1..MaxClients : RefreshStart(i)
    \/ \E outcome \in Outcomes : RefreshComplete(outcome)

Spec == Init /\ [][Next]_vars

----------------------------------------------------------------------------
(* The builder and the scope algebra: one builder, from new() to build() *)

InitBuilder ==
    /\ builder = BuilderNew
    /\ called = NothingCalled
    /\ built = NotBuilt
    /\ uc = CHOOSE c \in InitialClients : TRUE
    /\ exch = Idle
    /\ rfr = Idle
    /\ clients = <<>>
    /\ reqs = {}
    /\ sent = <<>>
    /\ ret = NoReturn
    /\ ncalls = 0
    /\ arg = NoArg
    /\ out = NoOut
    /\ CaptureInit

NextBuilder ==
    \/ \E uri \in RedirectUris : BuilderRedirectUri(uri)
    \/ \E s2 \in ArgScopes : BuilderAddScope(s2)
    \/ \E s \in ArgScopes : BuilderScope(s)
    \/ \E secret \in Secrets : BuilderSecret(secret)
    \/ BuilderBuild

SpecBuilder == InitBuilder /\ [][NextBuilder]_vars

\* Scope::with alone, on the builder's scope value
NextScope ==
    \/ \E s2 \in ArgScopes : BuilderAddScope(s2)
    \/ \E s \in ArgScopes : BuilderScope(s)

SpecScope == InitBuilder /\ [][NextScope]_vars

----------------------------------------------------------------------------
(* The functions studied alone: the client protocol stays at rest *)

\* the UnauthorizedClient of the runs that never use it
AnyClient == CHOOSE c \in InitialClients : TRUE

ProtocolAtRest ==
    /\ CaptureInit
    /\ builder = BuilderNew
    /\ called = NothingCalled
    /\ built = NotBuilt
    /\ exch = Idle
    /\ rfr = Idle
    /\ clients = <<>>
    /\ reqs = {}
    /\ sent = <<>>
    /\ ret = NoReturn
    /\ ncalls = 0

ProtocolVars ==
    <<builder, built, called, uc, exch, rfr, clients, reqs, sent, ret, ncalls,
      CaptureVars>>

SeqsUpTo(S, n) == UNION {[1..k -> S] : k \in 0..n}

----------------------------------------------------------------------------
(* src/scope.rs: the wire form, written and parsed *)

\* the tokens of a wire string: the catalog's scope strings, one string
\* outside the catalog, and the space. No two of them written one after the
\* other spell a catalog string.
WireChunks == {SP, "bogus.scope"} \cup {STR(ty) : ty \in MarkerTypes}

WireStrings == SeqsUpTo(WireChunks, MaxWireLen)

\* the scope values written to the wire
WireScopes ==
    ArgScopes \cup {SpaceDelimitedScope(v) : v \in SeqsUpTo(MarkerTypes, MaxWireLen)}

\* str.parse::<SpaceDelimitedScope>()
WireFromStr ==
    /\ arg.kind = "str"
    /\ out' = [op |-> "from_str", r |-> SpaceDelimitedScopeFromStr(arg.s)]
    /\ UNCHANGED <<ProtocolVars, arg>>

\* scope.space_delimited().to_string().parse::<SpaceDelimitedScope>()
WireDisplayFromStr ==
    /\ arg.kind = "scope"
    /\ LET wire == to_string(space_delimited(arg.scope))
       IN  out' = [op |-> "display_from_str", wire |-> wire,
                   r |-> SpaceDelimitedScopeFromStr(wire)]
    /\ UNCHANGED <<ProtocolVars, arg>>

\* serde_json::to_string of the SpaceDelimitedScope, then serde_json::from_str
WireJson ==
    /\ arg.kind = "scope"
    /\ LET json == SdsSerialize(space_delimited(arg.scope))
       IN  out' = [op |-> "json", json |-> json, r |-> SdsDeserialize(json)]
    /\ UNCHANGED <<ProtocolVars, arg>>

\* response.json::<Token>() of a token response whose scope field is the
\* string, every other field present and well-formed
WireTokenDecode ==
    /\ arg.kind = "str"
    /\ out' = [op |-> "decode",
               r |-> TokenDecode(JsonBody(Some("at-1"), Some(3599), Some("rt-1"),
                                          Some(arg.s), Some("Bearer")))]
    /\ UNCHANGED <<ProtocolVars, arg>>

InitWire ==
    /\ ProtocolAtRest
    /\ uc = AnyClient
    /\ arg \in {[kind |-> "str", s |-> str] : str \in WireStrings}
             \cup {[kind |-> "scope", scope |-> sc] : sc \in WireScopes}
    /\ out = NoOut

NextWire ==
    \/ WireFromStr
    \/ WireDisplayFromStr
    \/ WireJson
    \/ WireTokenDecode

SpecWire == InitWire /\ [][NextWire]_vars

----------------------------------------------------------------------------
(* src/client.rs: generate_url *)

\* a secret whose client_id has a space, and one with "&" and "="
SecretC ==
    [client_id |-> "a b", project_id |-> "proj-c",
     auth_uri |-> "https://accounts.example/o/oauth2/auth",
     token_uri |-> "https://oauth2.example/token-c",
     auth_provider_x509_cert_url |-> "https://certs.example/c",
     client_secret |-> "secret-a"]
SecretD == [SecretC EXCEPT !.client_id = "s&c=1"]

\* the clients generate_url is called on
UrlClients ==
    {UnauthorizedClientNew(secret, ClientConfig(uri, space_delimited(sc))) :
        secret \in {SecretA, SecretC, SecretD},
        uri \in RedirectUris \cup {"http://localhost:8080/cb"},
        sc \in WireScopes}

\* client.generate_url(): returns the string, touches nothing else; before
\* keeps what the earlier calls returned
GenerateUrl ==
    /\ arg.kind = "generate_url"
    /\ arg.calls < MaxUrlCalls
    /\ arg' = [arg EXCEPT !.calls = arg.calls + 1]
    /\ out' = [op |-> "generate_url", url |-> GenerateUrlString(uc),
               before |-> IF out = NoOut THEN <<>> ELSE Append(out.before, out.url)]
    /\ UNCHANGED ProtocolVars

InitUrl ==
    /\ ProtocolAtRest
    /\ uc \in UrlClients
    /\ arg = [kind |-> "generate_url", calls |-> 0]
    /\ out = NoOut

SpecUrl == InitUrl /\ [][GenerateUrl]_vars

----------------------------------------------------------------------------
(* src/secret.rs: WebClientSecret::override_from_env *)

\* [< $i:snake:upper >] of a field name
FieldUpper(field) ==
    CASE field = "client_id" -> "CLIENT_ID"
      [] field = "project_id" -> "PROJECT_ID"
      [] field = "auth_uri" -> "AUTH_URI"
      [] field = "token_uri" -> "TOKEN_URI"
      [] field = "auth_provider_x509_cert_url" -> "AUTH_PROVIDER_X509_CERT_URL"
      [] field = "client_secret" -> "CLIENT_SECRET"

\* var_name!: OVERRIDE_<FIELD>, or OVERRIDE_<infix>_<FIELD>
VarName(infix, field) ==
    IF infix.some THEN <<"OVERRIDE_", infix.v, "_", FieldUpper(field)>>
    ELSE <<"OVERRIDE_", FieldUpper(field)>>

\* the infix argument
Infixes == {None, Some("DEV")}

\* the variables override_from_env can read
EnvNames == {VarName(infix, field) : infix \in Infixes, field \in DOMAIN SecretA}

\* a variable of the process environment: not set, set to a string, or set
\* to bytes that are not valid unicode
EnvAbsent == [set |-> FALSE]
EnvString(v) == [set |-> TRUE, unicode |-> TRUE, v |-> v]
EnvNotUnicode == [set |-> TRUE, unicode |-> FALSE]

\* std::env::var(key)
EnvVar(env, key) ==
    IF ~env[key].set THEN Err("NotPresent")
    ELSE IF ~env[key].unicode THEN Err("NotUnicode")
    ELSE Ok(env[key].v)

\* WebClientSecret::override_from_env: let_var_or! is
\* std::env::var(&key).unwrap_or(field) for each of the six fields
OverrideFromEnv(secret, infix, env) ==
    [field \in DOMAIN secret |->
        LET var == EnvVar(env, VarName(infix, field))
        IN  IF var.ok THEN var.v ELSE secret[field]]

\* the environment gets one more variable before the secret is read
SetEnvVar(name, value) ==
    /\ arg.kind = "env"
    /\ out = NoOut
    /\ ~arg.env[name].set
    /\ Cardinality({n \in EnvNames : arg.env[n].set}) < MaxEnvVars
    /\ arg' = [arg EXCEPT !.env[name] = value]
    /\ UNCHANGED <<ProtocolVars, out>>

\* secret.override_from_env(infix)
OverrideFromEnvCall(infix) ==
    /\ arg.kind = "env"
    /\ out' = [op |-> "override_from_env", infix |-> infix,
               r |-> OverrideFromEnv(arg.secret, infix, arg.env)]
    /\ UNCHANGED <<ProtocolVars, arg>>

InitEnv ==
    /\ ProtocolAtRest
    /\ uc = AnyClient
    /\ arg = [kind |-> "env", secret |-> SecretA, env |-> [n \in EnvNames |-> EnvAbsent]]
    /\ out = NoOut

NextEnv ==
    \/ \E name \in EnvNames, value \in {EnvString(""), EnvString("xyz"), EnvNotUnicode} :
          SetEnvVar(name, value)
    \/ \E infix \in Infixes : OverrideFromEnvCall(infix)

SpecEnv == InitEnv /\ [][NextEnv]_vars

----------------------------------------------------------------------------
(* src/client/calendar.rs: list::Parameters and its query string *)

\* the values a caller hands to the setters of Parameters
ParameterValues(field) ==
    CASE field = "max_results" -> {Some(10), Some(250)}
      [] field = "min_access_role" ->
            {Some("freeBusyReader"), Some("owner"), Some("reader"), Some("writer")}
      [] field = "page_token" -> {Some("tok1"), Some("a/b=c&d")}
      [] field = "show_deleted" -> BOOLEAN
      [] field = "show_hidden" -> BOOLEAN
      [] field = "sync_token" -> {Some("tok1"), Some("a/b=c&d")}

\* Parameters::max_results, min_access_role, page_token, show_deleted,
\* show_hidden, sync_token: Self { <field>: <value>, ..self }; set keeps the
\* names of the setters called
ParametersSet(field, value) ==
    /\ arg.kind = "parameters"
    /\ out = NoOut
    /\ arg' = [arg EXCEPT !.p[field] = value, !.set = @ \cup {field}]
    /\ UNCHANGED <<ProtocolVars, out>>

\* parameters.into_query(), and the uri list::Request::send makes of it
ParametersIntoQuery ==
    /\ arg.kind = "parameters"
    /\ out' = [op |-> "into_query", query |-> IntoQuery(arg.p),
               uri |-> ListSendUri(arg.p)]
    /\ UNCHANGED <<ProtocolVars, arg>>

InitQuery ==
    /\ ProtocolAtRest
    /\ uc = AnyClient
    /\ arg = [kind |-> "parameters", p |-> ParametersNew, set |-> {}]
    /\ out = NoOut

NextQuery ==
    \/ \E field \in DOMAIN ParametersNew :
          \E value \in ParameterValues(field) : ParametersSet(field, value)
    \/ ParametersIntoQuery

SpecQuery == InitQuery /\ [][NextQuery]_vars

----------------------------------------------------------------------------
(* src/client.rs: the decoding of a token response *)

\* a response body that is not a JSON object
NotJson == [json |-> FALSE]

\* the scope field of a response: catalog scopes, a scope outside the
\* catalog alone and after a catalog scope, the empty string
DecodeScopes ==
    {<<STR("Calendar")>>,
     <<STR("CalendarReadonly"), SP, STR("CalendarEvents")>>,
     <<STR("Calendar"), SP, "openid">>,
     <<"openid">>,
     <<>>}

\* the response bodies: every field present or absent, token_type in four
\* spellings
DecodeBodies ==
    {NotJson} \cup
    {JsonBody(at, exp, rt, sc, tt) :
        at \in {None, Some("at-1")},
        exp \in {None, Some(3599)},
        rt \in {None, Some("rt-1")},
        sc \in {None} \cup {Some(w) : w \in DecodeScopes},
        tt \in {None, Some("Bearer"), Some("bearer"), Some("BEARER"), Some("MAC")}}

\* response.json::<Token>()
DecodeToken ==
    /\ arg.kind = "body"
    /\ out' = [op |-> "decode", r |-> TokenDecode(arg.body)]
    /\ UNCHANGED <<ProtocolVars, arg>>

InitDecode ==
    /\ ProtocolAtRest
    /\ uc = AnyClient
    /\ arg \in {[kind |-> "body", body |-> b] : b \in DecodeBodies}
    /\ out = NoOut

SpecDecode == InitDecode /\ [][DecodeToken]_vars

----------------------------------------------------------------------------
(* src/bin/tmp-auth.rs: the redirect capture. main polls wait_code and serve *)
(* in try_join!; axum runs every callback handler and the shutdown future    *)
(* as tasks of their own.                                                    *)

\* what the redirect capture leaves alone
LibraryVars ==
    <<builder, built, called, uc, exch, rfr, clients, reqs, sent, ret, ncalls, arg, out>>

\* a GET /oauth2/callback?code=.. is accepted: its handler starts
CallbackArrive(code) ==
    /\ serve.pc = "accepting"
    /\ serve.accepted < MaxCallbacks
    /\ serve' = [serve EXCEPT !.handlers = Append(@, code), !.accepted = @ + 1]
    /\ UNCHANGED <<LibraryVars, chan, shutdown_notify, wait_code, main, delivered>>

\* callback: code_tx.send(code) fails only when the receiver is gone; 200
\* "authorized" or 500 "channel error"
CallbackSend(i) ==
    /\ i \in DOMAIN serve.handlers
    /\ LET code == serve.handlers[i]
           others == SubSeq(serve.handlers, 1, i - 1)
                       \o SubSeq(serve.handlers, i + 1, Len(serve.handlers))
       IN  IF chan.rx
           THEN /\ chan' = [chan EXCEPT !.queue = Append(@, code)]
                /\ delivered' = Append(delivered, code)
                /\ serve' = [serve EXCEPT !.handlers = others,
                                          !.replies = Append(@, 200)]
           ELSE /\ serve' = [serve EXCEPT !.handlers = others,
                                          !.replies = Append(@, 500)]
                /\ UNCHANGED <<chan, delivered>>
    /\ UNCHANGED <<LibraryVars, shutdown_notify, wait_code, main>>

\* recv() takes the last message of the queue (mutant)
WaitCodeRecvLast ==
    /\ wait_code.pc = "recv"
    /\ IF chan.queue # <<>>
       THEN /\ wait_code' = [pc |-> "notify", code |-> chan.queue[Len(chan.queue)]]
            /\ chan' = [chan EXCEPT !.queue = SubSeq(@, 1, Len(@) - 1)]
       ELSE /\ ~chan.tx
            /\ wait_code' = [pc |-> "done", r |-> Err("received no authorization code")]
            /\ chan' = [chan EXCEPT !.rx = FALSE]
    /\ UNCHANGED <<LibraryVars, shutdown_notify, serve, main, delivered>>

\* wait_code_with_notify at code_rx.recv().await: the head of the queue; None
\* (the error) when the queue is empty and every sender is dropped; pending
\* otherwise
WaitCodeRecv ==
    /\ wait_code.pc = "recv"
    /\ IF chan.queue # <<>>
       THEN /\ wait_code' = [pc |-> "notify", code |-> Head(chan.queue)]
            /\ chan' = [chan EXCEPT !.queue = Tail(@)]
       ELSE /\ ~chan.tx
            /\ wait_code' = [pc |-> "done", r |-> Err("received no authorization code")]
            /\ chan' = [chan EXCEPT !.rx = FALSE]
    /\ UNCHANGED <<LibraryVars, shutdown_notify, serve, main, delivered>>

\* notify_one wakes a waiter and stores nothing when there is none (mutant)
WaitCodeNotifyNoPermit ==
    /\ wait_code.pc = "notify"
    /\ shutdown_notify' =
          IF shutdown_notify.notified = "waiting"
          THEN [shutdown_notify EXCEPT !.notified = "woken"]
          ELSE shutdown_notify
    /\ wait_code' = [pc |-> "done", r |-> Ok(wait_code.code)]
    /\ chan' = [chan EXCEPT !.rx = FALSE, !.queue = <<>>]
    /\ UNCHANGED <<LibraryVars, serve, main, delivered>>

\* wait_code_with_notify after recv: notify.notify_one() wakes the waiter or
\* stores the permit; Ok(code) is returned and code_rx dropped
WaitCodeNotify ==
    /\ wait_code.pc = "notify"
    /\ shutdown_notify' =
          IF shutdown_notify.notified = "waiting"
          THEN [shutdown_notify EXCEPT !.notified = "woken"]
          ELSE [shutdown_notify EXCEPT !.permit = TRUE]
    /\ wait_code' = [pc |-> "done", r |-> Ok(wait_code.code)]
    /\ chan' = [chan EXCEPT !.rx = FALSE, !.queue = <<>>]
    /\ UNCHANGED <<LibraryVars, serve, main, delivered>>

\* the shutdown future, shutdown_notify.notified().await, is polled: it takes
\* the permit or was woken and ends; else it waits
ShutdownPoll ==
    /\ main.pc = "join"
    /\ shutdown_notify.notified \in {"unpolled", "woken"}
    /\ shutdown_notify' =
          IF shutdown_notify.notified = "woken"
          THEN [shutdown_notify EXCEPT !.notified = "done"]
          ELSE IF shutdown_notify.permit
          THEN [permit |-> FALSE, notified |-> "done"]
          ELSE [shutdown_notify EXCEPT !.notified = "waiting"]
    /\ UNCHANGED <<LibraryVars, chan, wait_code, serve, main, delivered>>

\* with_graceful_shutdown: the shutdown future has ended, the server stops
\* accepting and drops the listener
ServeStopAccepting ==
    /\ main.pc = "join"
    /\ serve.pc = "accepting"
    /\ shutdown_notify.notified = "done"
    /\ serve' = [serve EXCEPT !.pc = "draining", !.listener = FALSE]
    /\ UNCHANGED <<LibraryVars, chan, shutdown_notify, wait_code, main, delivered>>

\* the server has no handler left: the serve future returns Ok(()) and the
\* router, with it every code_tx, is dropped
ServeFinish ==
    /\ main.pc = "join"
    /\ serve.pc = "draining"
    /\ serve.handlers = <<>>
    /\ serve' = [serve EXCEPT !.pc = "done"]
    /\ chan' = [chan EXCEPT !.tx = FALSE]
    /\ UNCHANGED <<LibraryVars, shutdown_notify, wait_code, main, delivered>>

\* tokio::try_join!(wait_code, serve)?: the error of wait_code ends main and
\* drops the server; both done gives the code
Join ==
    /\ main.pc = "join"
    /\ wait_code.pc = "done"
    /\ IF ~wait_code.r.ok
       THEN /\ main' = [pc |-> "exit", r |-> wait_code.r]
            /\ serve' = [serve EXCEPT !.pc = "dropped", !.listener = FALSE,
                                      !.handlers = <<>>]
            /\ chan' = [chan EXCEPT !.tx = FALSE]
       ELSE /\ serve.pc = "done"
            /\ main' = [pc |-> "joined", code |-> wait_code.r.v]
            /\ UNCHANGED <<serve, chan>>
    /\ UNCHANGED <<LibraryVars, shutdown_notify, wait_code, delivered>>

\* client.authorize_with(code): the code exchange starts, as AcquireTokenSend
MainAuthorize ==
    /\ main.pc = "joined"
    /\ exch = Idle
    /\ ncalls < MaxCalls
    /\ main' = [main EXCEPT !.pc = "authorize"]
    /\ ncalls' = ncalls + 1
    /\ sent' = Append(sent, TokenPost(uc, main.code, ncalls + 1))
    /\ exch' = [pc |-> "sent", id |-> ncalls + 1, via |-> "authorize_with_code",
                code |-> main.code]
    /\ UNCHANGED <<builder, built, called, uc, rfr, clients, reqs, ret, arg, out,
                   chan, shutdown_notify, wait_code, serve, delivered>>

\* the process ends while main waits in try_join! and leaves the listener
\* bound (mutant)
ProcessExitLeak ==
    /\ main.pc = "join"
    /\ main' = [pc |-> "exit", r |-> Err("terminated")]
    /\ wait_code' = IF wait_code.pc = "done" THEN wait_code ELSE [pc |-> "dropped"]
    /\ serve' = [serve EXCEPT !.handlers = <<>>]
    /\ chan' = [queue |-> <<>>, tx |-> FALSE, rx |-> FALSE]
    /\ UNCHANGED <<LibraryVars, shutdown_notify, delivered>>

\* the process is told to shut down while main waits in try_join!: main's
\* future is dropped, and with it wait_code (code_rx), serve (listener,
\* router) and the tasks of the runtime
ProcessExit ==
    /\ main.pc = "join"
    /\ main' = [pc |-> "exit", r |-> Err("terminated")]
    /\ wait_code' = IF wait_code.pc = "done" THEN wait_code ELSE [pc |-> "dropped"]
    /\ serve' = [serve EXCEPT !.pc = IF @ = "done" THEN @ ELSE "dropped",
                              !.listener = FALSE, !.handlers = <<>>]
    /\ chan' = [queue |-> <<>>, tx |-> FALSE, rx |-> FALSE]
    /\ UNCHANGED <<LibraryVars, shutdown_notify, delivered>>

\* the three parties of the capture and main
NextRun ==
    \/ \E code \in Codes : CallbackArrive(code)
    \/ \E i \in 1..MaxCallbacks : CallbackSend(i)
    \/ WaitCodeRecv
    \/ WaitCodeNotify
    \/ ShutdownPoll
    \/ ServeStopAccepting
    \/ ServeFinish
    \/ Join
    \/ MainAuthorize

\* the run of tmp-auth from try_join! on; the process may be terminated
SpecCapture == Init /\ [][NextRun \/ ProcessExit]_vars

\* wait_code_with_notify alone: the owner of the router may drop it, with
\* every code_tx, at any time
RouterDrop ==
    /\ chan.tx
    /\ serve' = [serve EXCEPT !.pc = "dropped", !.listener = FALSE, !.handlers = <<>>]
    /\ chan' = [chan EXCEPT !.tx = FALSE]
    /\ UNCHANGED <<LibraryVars, shutdown_notify, wait_code, main, delivered>>

SpecWait ==
    Init /\ [][\/ \E code \in Codes : CallbackArrive(code)
               \/ \E i \in 1..MaxCallbacks : CallbackSend(i)
               \/ WaitCodeRecv
               \/ WaitCodeNotify
               \/ RouterDrop]_vars

\* the run of tmp-auth left to itself: the runtime polls every task that
\* can make progress; no request has to arrive
SpecCaptureLive ==
    /\ Init
    /\ [][NextRun]_vars
    /\ WF_vars(\E i \in 1..MaxCallbacks : CallbackSend(i))
    /\ WF_vars(WaitCodeRecv)
    /\ WF_vars(WaitCodeNotify)
    /\ WF_vars(ShutdownPoll)
    /\ WF_vars(ServeStopAccepting)
    /\ WF_vars(ServeFinish)
    /\ WF_vars(Join)
    /\ WF_vars(MainAuthorize)

----------------------------------------------------------------------------
(* Properties *)

\* the token scope of the client a return value is about
RetTokenScope == clients[ret.client].token.scope

\* the POSTs of the code exchange that call id sent
ExchangePosts(id) ==
    {n \in DOMAIN sent : /\ sent[n].method = "POST"
                         /\ sent[n].call = id
                         /\ sent[n].form.grant_type = "authorization_code"}

\* C1: list() fails with InsufficientScopeError only when the granted scope
\* holds neither calendar nor calendar.readonly; a token granted exactly
\* {calendar.readonly} obtains a request builder.
C1_ListFailsOnlyWhenNeither ==
    ret.op = "list" =>
        /\ ~ret.r.ok => /\ "Calendar" \notin Scope(RetTokenScope)
                        /\ "CalendarReadonly" \notin Scope(RetTokenScope)
        /\ Scope(RetTokenScope) = {"CalendarReadonly"} => ret.r.ok

\* C2: a list() call sends nothing, whatever it returns; a Request value
\* only comes into being as the Ok result of a list() call whose scope check
\* passed; and every calendar-list GET handed to the transport comes from
\* such a Request value.
C2_ScopeCheckPrecedesNetwork ==
    [][/\ (ret'.id # ret.id /\ ret'.op = "list") =>
              /\ sent' = sent
              /\ ~ret'.r.ok => reqs' = reqs
       /\ \A r \in reqs' \ reqs :
              /\ ret'.op = "list" /\ ret'.r = Ok(r)
              /\ ContainScope(ListRequiredScopes, clients[r.client].token.scope)
       /\ (Len(sent') > Len(sent) /\ sent'[Len(sent')].method = "GET") =>
              sent'[Len(sent')].from \in reqs]_vars

\* C2 witness: list() has just failed on a client and the only request ever
\* sent is the POST of the exchange that created it.
C2_Witness ==
    /\ ret.op = "list" /\ ~ret.r.ok
    /\ Len(sent) = 1 /\ sent[1].method = "POST"

\* C3: authorize_with_code returns an AuthorizedClient exactly when the
\* request of that call was sent, answered and decoded; the client then holds
\* the decoded token and the UnauthorizedClient's secret; on failure no client
\* is produced; the UnauthorizedClient never changes and the call slot is free
\* again.
C3_AuthorizeTransition ==
    [][/\ uc' = uc
       /\ (ret'.id # ret.id /\ ret'.op = "authorize_with_code") =>
              LET o == ret'.outcome
                  success == o.transport /\ TokenDecode(o.body).ok
              IN  /\ ret'.r.ok <=> success
                  /\ ExchangePosts(ret'.id) # {}
                  /\ success =>
                        /\ ret'.r.v = [secret |-> uc.secret,
                                       token |-> TokenDecode(o.body).v]
                        /\ clients' = Append(clients, ret'.r.v)
                  /\ ~success => clients' = clients
                  /\ exch' = Idle
       /\ (ret'.id # ret.id /\ ret'.op = "acquire_token_with") =>
              clients' = clients]_vars

\* C3 witness: a second authorize_with_code call has succeeded after a first
\* call of the exchange that produced no client.
C3_Witness ==
    /\ ret.op = "authorize_with_code" /\ ret.r.ok /\ ret.id = 2
    /\ clients = <<ret.r.v>>
    /\ ret.r.v.secret = uc.secret

\* C4: after a successful refresh the new token has the response's
\* refresh_token when there is one and the previous token's otherwise, and
\* the response's access_token, expires_in, scope and token_type.
C4_RefreshMerge ==
    (ret.op = "refresh" /\ ret.r.ok) =>
        LET resp == TokenDecode(ret.outcome.body).v
            prev == clients[ret.client].token
            new == ret.r.v.token
        IN  /\ new.refresh_token =
                  IF resp.refresh_token.some THEN resp.refresh_token
                  ELSE prev.refresh_token
            /\ new.access_token = resp.access_token
            /\ new.expires_in = resp.expires_in
            /\ new.scope = resp.scope
            /\ new.token_type = resp.token_type

\* C4 witness: a refresh succeeded on a response without refresh_token.
C4_Witness ==
    /\ ret.op = "refresh" /\ ret.r.ok
    /\ ~TokenDecode(ret.outcome.body).v.refresh_token.some
    /\ ret.r.v.token.refresh_token = Some("rt-1")

\* C5: refresh() on a client whose token has no refresh token returns
\* NoRefreshTokenError and that call sends nothing; no refresh request is
\* ever in flight for such a client.
C5_NoRefreshToken ==
    /\ (ret.op = "refresh" /\ ~clients[ret.client].token.refresh_token.some) =>
           /\ ret.r = Err("NoRefreshTokenError")
           /\ \A n \in DOMAIN sent : sent[n].call # ret.id
    /\ rfr # Idle => clients[rfr.client].token.refresh_token.some

\* C5 witness: refresh() has just returned NoRefreshTokenError.
C5_Witness ==
    /\ ret.op = "refresh" /\ ret.r = Err("NoRefreshTokenError")
    /\ Len(sent) = 1

\* C6: an AuthorizedClient value never changes: whatever step is taken, every
\* client that exists keeps its token and its secret; new values are only
\* added.
C6_ClientNeverMutated ==
    [][\A i \in DOMAIN clients :
           i \in DOMAIN clients' /\ clients'[i] = clients[i]]_vars

\* C6 witness: a refresh of the one client failed on transport or decode
\* after other operations on it.
C6_Witness ==
    /\ ret.op = "refresh" /\ ~ret.r.ok /\ ret.r # Err("NoRefreshTokenError")
    /\ Len(clients) = 1 /\ ncalls = MaxCalls

\* C7: every call of the code exchange sends at most one POST to token_uri,
\* and exactly one once it has returned, failure included.
C7_NoInternalRetry ==
    /\ \A id \in 1..ncalls : Cardinality(ExchangePosts(id)) <= 1
    /\ ret.op \in {"acquire_token_with", "authorize_with_code"} =>
           Cardinality(ExchangePosts(ret.id)) = 1

\* C7 witness: an exchange call has returned a transport or decode error.
C7_Witness ==
    /\ ret.op \in {"acquire_token_with", "authorize_with_code"}
    /\ ~ret.r.ok
    /\ Cardinality(ExchangePosts(ret.id)) = 1

\* operands of the union laws: the catalog markers, NoScope and their with()
ScopeLeaves == {Marker(ty) : ty \in MarkerTypes} \cup {NoScope}
ScopeOperands ==
    ScopeLeaves \cup {With(Marker(t1), Marker(t2)) : t1, t2 \in MarkerTypes}

\* C8: with() is set union: A.with(B).scope() is A.scope() united with
\* B.scope(); union is commutative, idempotent and associative on scope().
C8_UnionIsSetUnion ==
    LET A == builder.scope
    IN  /\ Scope(With(A, A)) = Scope(A)
        /\ \A B \in ScopeOperands \cup ArgScopes :
              /\ Scope(With(A, B)) = Scope(A) \cup Scope(B)
              /\ Scope(With(B, A)) = Scope(A) \cup Scope(B)
              /\ Scope(With(A, B)) = Scope(With(B, A))
              /\ \A C \in ScopeLeaves :
                    Scope(With(With(A, B), C)) = Scope(With(A, With(B, C)))

\* C8 witness: a scope built by with() from overlapping operands.
C8_Witness ==
    /\ builder.scope.k = "With"
    /\ Cardinality(Scope(builder.scope)) >= 2
    /\ Len(SpaceDelimitedVec(builder.scope)) > Cardinality(Scope(builder.scope))

\* a Vec lists no element twice
NoDuplicate(v) == \A i, j \in DOMAIN v : v[i] = v[j] => i = j

\* C9: the SpaceDelimitedScope stored in a built client's config, and its
\* wire string, list every scope at most once.
C9_NoDuplicateScope ==
    (built.status = "built" /\ built.r.ok) =>
        /\ NoDuplicate(built.r.v.config.scope.v)
        /\ NoDuplicate(Split(to_string(built.r.v.config.scope)))

\* C10: S.grants(c) is true exactly when c is a member of S.scope(), for
\* every catalog scope c handed over as a marker or as a DynSingleScope;
\* NoScope grants nothing.
C10_GrantsIffMember ==
    LET S == builder.scope
    IN  /\ \A c \in MarkerTypes :
              /\ Grants(S, Marker(c)) <=> c \in Scope(S)
              /\ Grants(S, DynSingleScope(c)) <=> c \in Scope(S)
              /\ ~Grants(NoScope, Marker(c))
        /\ \A B \in ArgScopes, c \in MarkerTypes :
              Grants(With(S, B), Marker(c)) <=> (c \in Scope(S) \/ c \in Scope(B))

\* C10 witness: the scope value is a catalog marker, which grants itself and
\* nothing else.
C10_Witness ==
    /\ builder.scope.k = "Marker"
    /\ Grants(builder.scope, Marker(builder.scope.ty))
    /\ \E c \in MarkerTypes : ~Grants(builder.scope, Marker(c))

CatalogToken(piece) == piece \in {<<STR(ty)>> : ty \in MarkerTypes}

\* the message e spells the (non-empty) piece out
Mentions(e, piece) ==
    piece # <<>> =>
        \E i \in DOMAIN e : /\ i + Len(piece) - 1 <= Len(e)
                             /\ SubSeq(e, i, i + Len(piece) - 1) = piece

\* C12: parsing a wire string splits it on spaces and checks each token
\* against the catalog: it succeeds when every token is a catalog string, it
\* fails when one is not, and the error then identifies the first such token.
C12_StrictParseNamesToken ==
    out.op = "from_str" =>
        LET pieces == Split(arg.s)
            bad == {i \in DOMAIN pieces : ~CatalogToken(pieces[i])}
        IN  /\ out.r.ok <=> bad = {}
            /\ bad # {} =>
                  Mentions(out.r.e, pieces[CHOOSE i \in bad : \A h \in bad : i <= h])

\* the body is a JSON object with access_token, expires_in, scope and
\* token_type present
HasRequiredFields(body) ==
    /\ body.json
    /\ body.access_token.some
    /\ body.expires_in.some
    /\ body.scope.some
    /\ body.token_type.some

\* the scope field is a list of non-empty tokens, one space between two
WellFormedScopeField(str) ==
    \A i \in DOMAIN Split(str) : Len(Split(str)[i]) = 1

\* C13: decoding a token response never fails because the granted-scope
\* field names a scope outside the catalog: the unknown scope is kept as an
\* entry of the granted set and reappears when the set is written back.
C13_LenientResponseScope ==
    (/\ out.op = "decode"
     /\ HasRequiredFields(arg.body)
     /\ arg.body.token_type.v = "Bearer"
     /\ WellFormedScopeField(arg.body.scope.v)) =>
        /\ out.r.ok
        /\ to_string(out.r.v.scope) = arg.body.scope.v

\* C15: decoding a token response fails whenever token_type is not exactly
\* "Bearer" or one of access_token, expires_in, scope, token_type is missing;
\* the absence of refresh_token alone never makes it fail (the body decodes
\* exactly when the same body with a refresh_token does) and then yields a
\* token with no refresh token.
C15_TokenDecoding ==
    out.op = "decode" =>
        /\ ~HasRequiredFields(arg.body) => ~out.r.ok
        /\ (HasRequiredFields(arg.body) /\ arg.body.token_type.v # "Bearer") => ~out.r.ok
        /\ (arg.body.json /\ ~arg.body.refresh_token.some) =>
              /\ out.r.ok =
                    TokenDecode([arg.body EXCEPT !.refresh_token = Some("rt-1")]).ok
              /\ out.r.ok => out.r.v.refresh_token = None
        /\ (/\ HasRequiredFields(arg.body)
            /\ arg.body.token_type.v = "Bearer"
            /\ \A i \in DOMAIN Split(arg.body.scope.v) :
                    CatalogToken(Split(arg.body.scope.v)[i])) => out.r.ok

C15_Witness ==
    /\ out.op = "decode"
    /\ HasRequiredFields(arg.body)
    /\ arg.body.token_type.v = "bearer"
    /\ arg.body.scope.v = <<STR("Calendar")>>
    /\ ~out.r.ok

\* C14: build() succeeds exactly when both redirect_uri and secret were set;
\* when it fails no client is produced and the error names the first missing
\* field, redirect_uri before secret; a client built with no scope set has
\* an empty requested scope.
C14_BuildRequiresBoth ==
    built.status = "built" =>
        /\ built.r.ok <=> (builder.redirect_uri.some /\ builder.secret.some)
        /\ ~built.r.ok =>
              /\ "v" \notin DOMAIN built.r
              /\ built.r.e = IF ~builder.redirect_uri.some
                              THEN "redirect_uri is required"
                              ELSE "secret is required"
        /\ built.r.ok =>
              /\ built.r.v.secret = builder.secret.v
              /\ built.r.v.config.redirect_uri = builder.redirect_uri.v
              /\ builder.scope = NoScope =>
                    /\ built.r.v.config.scope.v = <<>>
                    /\ Scope(built.r.v.config.scope) = {}

C14_Witness ==
    /\ built.status = "built"
    /\ ~builder.redirect_uri.some
    /\ ~builder.secret.some
    /\ builder.scope # NoScope
    /\ built.r = Err("redirect_uri is required")

\* the pieces of a string between the occurrences of the chunk sep
SplitAt(str, sep) ==
    LET seps == {i \in DOMAIN str : str[i] = sep}
        n == Cardinality(seps)
        at(k) == IF k = 0 THEN 0
                 ELSE IF k = n + 1 THEN Len(str) + 1
                 ELSE CHOOSE i \in seps : Cardinality({j \in seps : j < i}) = k - 1
    IN  [k \in 1..(n + 1) |-> SubSeq(str, at(k - 1) + 1, at(k) - 1)]

\* what an escape stands for
PercentUnescape(c) ==
    IF \E d \in DOMAIN PercentEscape : PercentEscape[d] = c
    THEN CHOOSE d \in DOMAIN PercentEscape : PercentEscape[d] = c
    ELSE c

\* enc is value with every character outside [A-Za-z0-9] percent-escaped:
\* no such character is left in enc, and unescaping enc gives value
EscapedFormOf(enc, value) ==
    /\ \A i \in DOMAIN enc : enc[i] \notin DOMAIN PercentEscape
    /\ [i \in DOMAIN enc |-> PercentUnescape(enc[i])] = value

\* param is name=<value percent-escaped>
EncodedParam(param, name, value) ==
    /\ param # <<>>
    /\ Head(param) = name
    /\ EscapedFormOf(Tail(param), value)

\* the URL that generate_url returned is auth_uri, "?", and the five
\* parameters in their order
UrlShape ==
    LET params == SplitAt(SubSeq(out.url, 3, Len(out.url)), "&")
    IN  /\ Len(out.url) >= 2
        /\ out.url[1] = uc.secret.auth_uri
        /\ out.url[2] = "?"
        /\ Len(params) = 5
        /\ EncodedParam(params[1], "client_id=", Chars(uc.secret.client_id))
        /\ EncodedParam(params[2], "redirect_uri=", Chars(uc.config.redirect_uri))
        /\ EncodedParam(params[3], "scope=",
                        CharsOf(SdsDisplayVec(uc.config.scope.v)))
        /\ params[4] = <<"response_type=code">>
        /\ params[5] = <<"access_type=offline">>
        /\ \A i \in DOMAIN out.url : out.url[i] # "state="

\* C16: generate_url returns auth_uri, "?", then client_id, redirect_uri,
\* scope, response_type=code, access_type=offline in that order and no other
\* parameter, the three values with every character outside [A-Za-z0-9]
\* percent-escaped; the call sends nothing and changes nothing, and a second
\* call on the same client returns the same string.
C16_GenerateUrl ==
    out.op = "generate_url" =>
        /\ UrlShape
        /\ sent = <<>>
        /\ \A n \in DOMAIN out.before : out.before[n] = out.url

C16_Witness ==
    /\ out.op = "generate_url"
    /\ Len(out.before) = 1
    /\ uc.secret.client_id = "a b"
    /\ uc.config.redirect_uri = "http://localhost:8080/cb"
    /\ uc.config.scope.v = <<"Calendar", "CalendarReadonly">>
    /\ SubSeq(out.url, 3, 6) = <<"client_id=", "a", "%20", "b">>

\* the POST of a code exchange for the code: to token_uri, form-urlencoded,
\* the five fields in their order with their values percent-escaped
ExchangePostShape(post, code) ==
    LET params == SplitAt(post.body, "&")
    IN  /\ post.method = "POST"
        /\ post.url = uc.secret.token_uri
        /\ post.content_type = "application/x-www-form-urlencoded"
        /\ Len(params) = 5
        /\ EncodedParam(params[1], "client_id=", Chars(uc.secret.client_id))
        /\ EncodedParam(params[2], "client_secret=", Chars(uc.secret.client_secret))
        /\ EncodedParam(params[3], "code=", Chars(code))
        /\ EncodedParam(params[4], "grant_type=", <<"authorization", "_", "code">>)
        /\ EncodedParam(params[5], "redirect_uri=", Chars(uc.config.redirect_uri))

\* C17: the code exchange sends a POST to the secret's token_uri with
\* Content-Type application/x-www-form-urlencoded and a body of client_id,
\* client_secret, code, grant_type=authorization_code, redirect_uri in that
\* order joined by "&", each value percent-encoded; the values are those of
\* the client's secret and config and the code the caller passed.
C17_ExchangePost ==
    /\ \A n \in DOMAIN sent :
          (sent[n].method = "POST" /\ sent[n].form.grant_type = "authorization_code") =>
              \E code \in Codes : ExchangePostShape(sent[n], code)
    /\ exch.pc = "sent" =>
          \E n \in DOMAIN sent : /\ sent[n].call = exch.id
                                  /\ ExchangePostShape(sent[n], exch.code)

C17_Witness ==
    /\ exch.pc = "sent"
    /\ exch.code = "4/code-2"
    /\ \E n \in DOMAIN sent :
          /\ n > 1
          /\ sent[n].call = exch.id
          /\ sent[n].url = "https://oauth2.example/token-b"
          /\ SubSeq(sent[n].body, 1, 4) = <<"client_id=", "id", "%2D", "b">>

\* the Authorization header that carries the access token of client i
BearerOf(i) == Some(<<"Bearer", SP, clients[i].token.access_token>>)

\* C18: every request built through an AuthorizedClient (request, get,
\* post, patch, put, delete, and the calendar-list view) carries
\* Authorization: Bearer <access_token> of that client and targets
\* https://www.googleapis.com followed by the path, the calendar views under
\* /calendar/v3; building a request sends nothing.
C18_BearerAndBaseUrl ==
    /\ ret.op = "request" =>
          /\ ret.r.method = ret.method
          /\ ret.r.url = <<"https://www.googleapis.com">> \o ret.uri
          /\ ret.r.authorization = BearerOf(ret.client)
          /\ \A n \in DOMAIN sent : sent[n].call # ret.id
    /\ \A n \in DOMAIN sent :
          sent[n].method = "GET" =>
              /\ Len(sent[n].url) >= 3
              /\ SubSeq(sent[n].url, 1, 3) =
                    <<"https://www.googleapis.com", "/calendar/v3",
                      "/users/me/calendarList">>
              /\ sent[n].authorization = BearerOf(sent[n].from.client)

C18_Witness ==
    /\ ret.op = "request"
    /\ ret.method = "DELETE"
    /\ ret.r.authorization = Some(<<"Bearer", SP, "at-1">>)
    /\ sent # <<>>

\* C19: for each of the six secret fields and either infix choice,
\* override_from_env returns the value of OVERRIDE_{INFIX_}FIELD when that
\* variable is present and non-empty, and the field's original value when it
\* is absent or present but empty; no other variable changes the field.
C19_EnvOverridePerField ==
    out.op = "override_from_env" =>
        \A field \in DOMAIN arg.secret :
            LET var == arg.env[VarName(out.infix, field)]
            IN  /\ (var.set /\ var.unicode /\ var.v # "") => out.r[field] = var.v
                /\ (~var.set \/ (var.unicode /\ var.v = "")) =>
                        out.r[field] = arg.secret[field]

\* the key of a parameter in the query string
QueryKey(field) ==
    CASE field = "max_results" -> "maxResults="
      [] field = "min_access_role" -> "minAccessRole="
      [] field = "page_token" -> "pageToken="
      [] field = "show_deleted" -> "showDeleted="
      [] field = "show_hidden" -> "showHidden="
      [] field = "sync_token" -> "syncToken="

\* the keys a query string holds
QueryKeys(query) ==
    IF query = <<>> THEN {}
    ELSE {Head(SplitAt(query, "&")[k]) : k \in DOMAIN SplitAt(query, "&")}

\* C20: the query string of a calendar-list request holds a key exactly for
\* the parameters the caller set; a parameter never set is left out, and a
\* request with no parameter set has an empty query and is sent to the path
\* with no "?" suffix.
C20_QueryOnlySetParameters ==
    out.op = "into_query" =>
        /\ QueryKeys(out.query) = {QueryKey(field) : field \in arg.set}
        /\ arg.set = {} => (out.query = <<>> /\ out.uri = <<>>)

----------------------------------------------------------------------------
(* The redirect capture of src/bin/tmp-auth.rs *)

\* C21: the wait returns the first code the callback delivered on the
\* channel, never a code that was not delivered; it fails, with "received no
\* authorization code", only when every sender is dropped and no code was
\* ever delivered, and when the channel is closed with no code delivered the
\* wait can only be pending or have failed so
C21_WaitReturnsFirstCode ==
    /\ wait_code.pc = "notify" =>
          delivered # <<>> /\ wait_code.code = delivered[1]
    /\ wait_code.pc = "done" =>
          IF wait_code.r.ok
          THEN delivered # <<>> /\ wait_code.r.v = delivered[1]
          ELSE /\ wait_code.r.e = "received no authorization code"
               /\ delivered = <<>>
               /\ ~chan.tx
    /\ (~chan.tx /\ delivered = <<>>) =>
          \/ wait_code.pc = "recv"
          \/ wait_code.pc = "done" /\ ~wait_code.r.ok
    /\ (~chan.tx /\ delivered = <<>> /\ wait_code.pc = "recv") => ENABLED WaitCodeRecv

\* two codes were delivered and the wait returned the first one
C21_WitnessFirstOfTwo ==
    /\ Len(delivered) = 2
    /\ delivered[1] # delivered[2]
    /\ wait_code.pc = "done"
    /\ wait_code.r = Ok(delivered[1])

ExchangeStartedWithCode ==
    /\ main = [pc |-> "authorize", code |-> delivered[1]]
    /\ sent = <<TokenPost(uc, delivered[1], 1)>>

\* C23: in every interleaving, once the wait has returned the shutdown
\* notification is held (permit, woken or consumed by the shutdown future),
\* the join completes only with the first delivered code and only after both
\* the wait and the server have finished, the exchange is started at most
\* once and only after the join; and once a code has been sent on the
\* channel the server stops, the join completes and the exchange starts
C23_ShutdownHandOff ==
    /\ [](wait_code.pc = "done" =>
            \/ shutdown_notify.permit
            \/ shutdown_notify.notified \in {"woken", "done"})
    /\ [](main.pc \in {"joined", "authorize"} =>
            /\ wait_code = [pc |-> "done", r |-> Ok(delivered[1])]
            /\ serve.pc = "done" /\ ~serve.listener
            /\ main.code = delivered[1])
    /\ [](IF main.pc = "authorize" THEN ExchangeStartedWithCode ELSE sent = <<>>)
    /\ (delivered # <<>>) ~> (serve.pc = "done" /\ ExchangeStartedWithCode)

\* two callbacks were answered, the server has stopped and the exchange has
\* started with the first code
C23_WitnessExchangeStarted ==
    /\ Len(serve.replies) = 2
    /\ serve.pc = "done"
    /\ ExchangeStartedWithCode

----------------------------------------------------------------------------
(* The representations of a scope value *)

\* the representations of scope value s agree, and boxing keeps them
RepresentationsAgree(s) ==
    /\ {space_delimited(s).v[i] : i \in DOMAIN space_delimited(s).v} = Scope(s)
    /\ ScopeStr(s) = {STR(x) : x \in Scope(s)}
    /\ \A b \in {into_boxed(s), boxed_clone(s)} :
          /\ b.k = "Box"
          /\ Scope(b) = Scope(s)
          /\ ScopeStr(b) = ScopeStr(s)
          /\ {space_delimited(b).v[i] : i \in DOMAIN space_delimited(b).v} = Scope(s)

\* C24: for the scope value of the builder, whatever calls made it, the
\* elements of space_delimited() are scope(), scope_str() is the set of the
\* URI strings of scope(), into_boxed and boxed_clone keep both; and the
\* scope build() stored grants exactly what the builder's value granted
C24_ScopeRepresentationsAgree ==
    /\ RepresentationsAgree(builder.scope)
    /\ (built # NotBuilt /\ built.r.ok) =>
          /\ RepresentationsAgree(built.r.v.config.scope)
          /\ Scope(built.r.v.config.scope) = Scope(builder.scope)
          /\ \A ty \in MarkerTypes :
                /\ Grants(built.r.v.config.scope, Marker(ty))
                      <=> Grants(builder.scope, Marker(ty))
                /\ Grants(built.r.v.config.scope, DynSingleScope(ty))
                      <=> Grants(builder.scope, DynSingleScope(ty))

\* a client was built from a With over a boxed scope whose
\* space-delimited form repeats an element
C24_WitnessBuiltFromWith ==
    /\ built # NotBuilt /\ built.r.ok
    /\ builder.scope.k = "With"
    /\ builder.scope.b.k = "Box"
    /\ Cardinality(Scope(builder.scope)) = 2
    /\ Len(built.r.v.config.scope.v) = 3

----------------------------------------------------------------------------
(* The wire parse and the empty token *)

\* the string is empty or has a leading, a trailing or a doubled space
HasEmptyToken(str) ==
    \/ str = <<>>
    \/ str # <<>> /\ (str[1] = SP \/ str[Len(str)] = SP)
    \/ \E i \in 1..(Len(str) - 1) : str[i] = SP /\ str[i + 1] = SP

\* C25: parsing fails, with the error of the single-scope lookup, for the
\* empty string and for every string with a leading, trailing or doubled
\* space, these being the strings that split into some empty token; the
\* wire string of a scope value with no scope is empty and does not parse
\* back; a token response with such a scope field fails to decode
C25_EmptyTokenRejected ==
    /\ out.op = "from_str" =>
          /\ HasEmptyToken(arg.s) <=> (\E i \in DOMAIN Split(arg.s) : Split(arg.s)[i] = <<>>)
          /\ HasEmptyToken(arg.s) => out.r = Err(<<"no matching scope found">>)
    /\ (out.op = "display_from_str" /\ Scope(arg.scope) = {}) =>
          /\ out.wire = <<>>
          /\ ~out.r.ok
    /\ (out.op = "decode" /\ HasEmptyToken(arg.s)) => ~out.r.ok

\* the wire string of the empty SpaceDelimitedScope was parsed and refused
C25_WitnessEmptyWire ==
    /\ out.op = "display_from_str"
    /\ arg.scope = SpaceDelimitedScope(<<>>)
    /\ out.wire = <<>>
    /\ out.r = Err(<<"no matching scope found">>)

----------------------------------------------------------------------------
(* Sequences of builder calls *)

\* the scopes of the called values, one value after the other in call order
RECURSIVE CalledScopeVec(_)
CalledScopeVec(values) ==
    IF values = <<>> THEN <<>>
    ELSE CalledScopeVec(SubSeq(values, 1, Len(values) - 1))
            \o SpaceDelimitedVec(values[Len(values)])

\* C26: after any sequence of setter calls the builder holds the uri of the
\* last redirect_uri call, the secret of the last secret call (none when
\* the setter was never called, whatever else was), and a scope that is the
\* value of the last scope() call, empty without one, extended in call
\* order by the add_scope calls made after it; build() makes the client of
\* exactly these, or fails when the uri or the secret was never set
C26_BuilderCallSequences ==
    /\ builder.redirect_uri = called.redirect_uri
    /\ builder.secret = called.secret
    /\ SpaceDelimitedVec(builder.scope) = CalledScopeVec(called.scope)
    /\ built # NotBuilt =>
          IF called.redirect_uri.some /\ called.secret.some
          THEN built.r = Ok(UnauthorizedClientNew(
                              called.secret.v,
                              ClientConfig(called.redirect_uri.v,
                                  SpaceDelimitedScope(CalledScopeVec(called.scope)))))
          ELSE ~built.r.ok

\* a client was built after a scope() call followed by an add_scope call
C26_WitnessScopeThenAdd ==
    /\ built # NotBuilt /\ built.r.ok
    /\ called.scope = <<Marker("CalendarEvents"), Marker("Calendar")>>
    /\ builder.scope = With(Marker("CalendarEvents"), Marker("Calendar"))
    /\ built.r.v.config.scope.v = <<"CalendarEvents", "Calendar">>
    /\ built.r.v.config.redirect_uri = called.redirect_uri.v
====
